---- MODULE Spec2Model ----
(***************************************************************************)
(* Session state machine of the ink story preview:                         *)
(*   - the extension's command / save handlers   (src/src/inkVisualizer.ts) *)
(*   - PreviewManager                             (src/unnamed/part_002)    *)
(*   - PreviewController and its message handlers (src/unnamed/part_001)    *)
(*   - PreviewStateManager, the actions' reducers and PreviewStoryManager,  *)
(*     whose sources are not part of src/ and are modelled from spec.md     *)
(*     sections 3, 4.1 and 4.2.                                             *)
(*                                                                         *)
(* One TLA+ step is one macrotask of the extension host (a command, a save *)
(* event, one inbound webview message) together with the microtasks it     *)
(* schedules: compileStory contains no await, so preview() runs without    *)
(* interruption up to the await on viewReadyDeferred.promise, and the      *)
(* continuation of that await runs right after the `ready` handler that    *)
(* resolves the deferred.                                                  *)
(***************************************************************************)
EXTENDS Integers, Sequences, FiniteSets, TLC

\* ------------------------------------------------------------------ bounds
MaxLog == 3        \* longest ActionLog explored
MaxVersion == 2    \* highest document version explored
MaxLines == 3      \* longest document, in lines, searched for a divert target

\* ------------------------------------------------------------------ stories
\* Source texts of the document.  "A" and "B" compile; "B" is "A" with the
\* choice "door" removed.  "E" does not compile: the compiler reports errors.
GoodSources == {"A", "B"}
BadSources == {"E"}
Sources == GoodSources \cup BadSources

\* Sources on which compiler.Compile() throws: "X" throws with no error
\* reported and no message, "Y" throws after it has reported errors, "I"
\* names an include file that cannot be loaded, which throws with a message.
ThrowingSources == {"X", "Y", "I"}
AllSources == Sources \cup ThrowingSources

\* The ordered choices the compiled story offers at a node; a node's text is
\* its name.
Children(story, node) ==
    IF node = "intro" THEN <<"left", "right">>
    ELSE IF node = "left" /\ story = "A" THEN <<"door", "flee">>
    ELSE IF node = "left" /\ story = "B" THEN <<"flee">>
    ELSE <<>>

\* ------------------------------------------------------------------ adapter
\* PreviewStoryManager wrapping one compiled story: pos = "none" until the
\* story has been continued for the first time.
NewAdapter(story) == [story |-> story, pos |-> "none"]

NoAdapter == [story |-> "none", pos |-> "none"]

AdapterStart(ad) == [ad EXCEPT !.pos = "none"]

CurrentChoices(ad) == IF ad.pos = "none" THEN <<>> ELSE Children(ad.story, ad.pos)

\* continueUntilChoice(): the text produced and the adapter afterwards
ContinueText(ad) == IF ad.pos = "none" /\ ad.story # "none" THEN <<"intro">> ELSE <<>>

ContinueAdapter(ad) ==
    IF ad.pos = "none" /\ ad.story # "none" THEN [ad EXCEPT !.pos = "intro"] ELSE ad

\* choose(index), index counted from 0 and in range
ChooseAdapter(ad, i) == [ad EXCEPT !.pos = CurrentChoices(ad)[i + 1]]

ChooseText(ad, i) == <<CurrentChoices(ad)[i + 1]>>

IsEnded(ad) == ad.pos # "none" /\ CurrentChoices(ad) = <<>>

\* ------------------------------------------------------------------ actions
Act(t, i, e, items) == [type |-> t, index |-> i, enabled |-> e, items |-> items]

StartStoryAction == Act("Start", 0, FALSE, <<>>)

SelectChoiceAction(i) == Act("SelectChoice", i, FALSE, <<>>)

RewindStoryAction == Act("Rewind", 0, FALSE, <<>>)

ToggleLiveUpdateUIAction(e) == Act("ToggleLiveUpdate", 0, e, <<>>)

AddErrorsAction(errors) == Act("RecordErrors", 0, FALSE, errors)

AddStoryEventsAction(events) == Act("RecordEvents", 0, FALSE, events)

\* ------------------------------------------------------------------ state
EmptyState ==
    [transcript |-> <<>>, choices |-> <<>>, errors |-> <<>>, events |-> <<>>,
     liveUpdate |-> TRUE, canContinue |-> FALSE, atEnd |-> FALSE]

\* Fold the output of an adapter operation into the State
FoldOutput(st, text, ad) ==
    [st EXCEPT !.transcript = st.transcript \o text,
               !.choices = CurrentChoices(ad),
               !.canContinue = FALSE,
               !.atEnd = IsEnded(ad)]

ValidChoice(ad, i) == i >= 0 /\ i < Len(CurrentChoices(ad))

\* The Reducer: apply(state, action, adapter) -> state', and the adapter after
\* the side effect of the action.
ReduceState(st, ad, a) ==
    IF a.type = "Start"
    THEN FoldOutput(st, ContinueText(AdapterStart(ad)), ContinueAdapter(AdapterStart(ad)))
    ELSE IF a.type = "SelectChoice"
    THEN IF ValidChoice(ad, a.index)
         THEN FoldOutput(st, ChooseText(ad, a.index), ChooseAdapter(ad, a.index))
         ELSE [st EXCEPT !.errors = st.errors \o <<"InvalidChoice">>]
    ELSE IF a.type = "ToggleLiveUpdate"
    THEN [st EXCEPT !.liveUpdate = a.enabled]
    ELSE IF a.type = "RecordErrors"
    THEN [st EXCEPT !.errors = st.errors \o a.items]
    ELSE IF a.type = "RecordEvents"
    THEN [st EXCEPT !.events = st.events \o a.items]
    ELSE st

ReduceAdapter(ad, a) ==
    IF a.type = "Start"
    THEN ContinueAdapter(AdapterStart(ad))
    ELSE IF a.type = "SelectChoice" /\ ValidChoice(ad, a.index)
    THEN ChooseAdapter(ad, a.index)
    ELSE ad

\* ------------------------------------------------------------------ state manager
\* The session owned by PreviewStateManager: the ActionLog, the derived State,
\* the RuntimeAdapter handle, and `sent`, the updateState messages posted to the
\* webview during the current step (the observer of setupStateChangeHandler).
\* A disposed session is inert: no operation changes it any more.
NewSession ==
    [log |-> <<>>, state |-> EmptyState, adapter |-> NoAdapter, sent |-> <<>>,
     disposed |-> FALSE]

\* Mutant of Notify: the observer posts the State twice
NotifyTwice(s) == [s EXCEPT !.sent = Append(Append(s.sent, s.state), s.state)]

\* The observer registered by setupStateChangeHandler: one outbound updateState
\* message carrying the full State.
Notify(s) == [s EXCEPT !.sent = Append(s.sent, s.state)]

SetStoryManager(s, ad) == IF s.disposed THEN s ELSE [s EXCEPT !.adapter = ad]

\* reset(): clears ActionLog and State, keeps the adapter reference
Reset(s) ==
    IF s.disposed THEN s ELSE Notify([s EXCEPT !.log = <<>>, !.state = EmptyState])

\* replay(): the fold of the log from the empty State onto a freshly started
\* adapter.  acc.div is set by the first invalid SelectChoice; from then on
\* SelectChoice actions are skipped and every other action is still applied.
RECURSIVE ReplayFold(_, _)
ReplayFold(acc, l) ==
    IF l = <<>> THEN acc
    ELSE LET a == Head(l) IN
         IF a.type = "SelectChoice" /\ acc.div
         THEN ReplayFold(acc, Tail(l))
         ELSE ReplayFold(
                [state |-> ReduceState(acc.state, acc.adapter, a),
                 adapter |-> ReduceAdapter(acc.adapter, a),
                 div |-> acc.div \/ (a.type = "SelectChoice" /\ ~ValidChoice(acc.adapter, a.index))],
                Tail(l))

ReplayResult(l, ad) ==
    ReplayFold([state |-> EmptyState, adapter |-> AdapterStart(ad), div |-> FALSE], l)

Replay(s) ==
    LET r == ReplayResult(s.log, s.adapter)
    IN IF s.disposed THEN s
       ELSE Notify([s EXCEPT !.state = r.state, !.adapter = r.adapter])

\* Index of the last SelectChoice of the log, 0 when it holds none
LastChoiceIndex(l) ==
    IF \E k \in 1..Len(l) : l[k].type = "SelectChoice"
    THEN CHOOSE k \in 1..Len(l) :
            /\ l[k].type = "SelectChoice"
            /\ \A j \in (k + 1)..Len(l) : l[j].type # "SelectChoice"
    ELSE 0

\* The log with its last SelectChoice and everything after it removed
TruncateLog(l) ==
    IF LastChoiceIndex(l) = 0 THEN l ELSE SubSeq(l, 1, LastChoiceIndex(l) - 1)

\* rewind(): truncate the log, then replay it
Rewind(s) == Replay([s EXCEPT !.log = TruncateLog(s.log)])

\* dispose(): the adapter handle is released, the log and the State stay as
\* they are, and the session is inert from here on
DisposeSession(s) == [s EXCEPT !.disposed = TRUE, !.adapter = NoAdapter]

\* dispatch(action): Rewind is not appended and is handled by rewind(); every
\* other action is appended and folded onto the State by the Reducer.
Dispatch(s, a) ==
    IF s.disposed THEN s
    ELSE IF a.type = "Rewind"
    THEN Rewind(s)
    ELSE Notify([s EXCEPT !.log = Append(s.log, a),
                          !.state = ReduceState(s.state, s.adapter, a),
                          !.adapter = ReduceAdapter(s.adapter, a)])

\* ------------------------------------------------------------------ variables
VARIABLES
    doc,          \* the ink document of the editor: [version, source]
    instance,     \* PreviewManager.instance is defined
    mgr,          \* PreviewManager: [uri, version, liveUpdateEnabled]
    ctl,          \* PreviewController: [isInitialized, viewReadyDeferred]
    sm,           \* PreviewStateManager: [log, state, adapter, sent]
    readySeen,    \* a `ready` message has been received from the webview
    lastOp        \* the handler that ran in the last step and what it did

vars == <<doc, instance, mgr, ctl, sm, readySeen, lastOp>>

Op(op, type, index, result) == [op |-> op, type |-> type, index |-> index, result |-> result]

\* Fields of a PreviewManager / PreviewController right after construction
NewManager == [uri |-> "none", version |-> 0, liveUpdateEnabled |-> TRUE]

NewController == [isInitialized |-> FALSE, viewReadyDeferred |-> "null"]

\* The session at the start of a step: nothing posted to the webview yet
Quiet(s) == [s EXCEPT !.sent = <<>>]

Init ==
    /\ doc \in [version : {1}, source : Sources]
    /\ instance = FALSE
    /\ mgr = NewManager
    /\ ctl = NewController
    /\ sm = NewSession
    /\ readySeen = FALSE
    /\ lastOp = Op("init", "none", 0, "none")

\* ------------------------------------------------------------------ PreviewManager
\* compiler.Compile() ends in an exception
CompilerThrows(source) == source \in ThrowingSources

\* compiler.errors after compiler.Compile()
CompilerErrors(source) == IF source \in {"E", "Y"} THEN <<"CompileError">> ELSE <<>>

\* error.message of the exception, "" when it has none
ExceptionMessage(source) == IF source = "I" THEN "IncludeLoadError" ELSE ""

\* Mutant of CompileErrors: no fallback to the exception when the compiler
\* reported nothing
CompileErrorsOfCompilerOnly(source) == CompilerErrors(source)

\* compileStory: the errors handed to controller.showErrors when no story is
\* returned
CompileErrors(source) ==
    IF CompilerErrors(source) # <<>> THEN CompilerErrors(source)
    ELSE IF ExceptionMessage(source) # "" THEN <<ExceptionMessage(source)>>
    ELSE <<"UnknownCompilationError">>

\* compileStory returns the story
CompileReturnsStory(source) == ~CompilerThrows(source) /\ CompilerErrors(source) = <<>>

\* Mutant of ShowErrors: the errors replace the session instead of joining it
ShowErrorsResets(s, errors) == Dispatch(Reset(s), AddErrorsAction(errors))

\* showErrors(errors)
ShowErrors(s, errors) == Dispatch(s, AddErrorsAction(errors))

\* Mutant of CompileFailed: the failure blanks the session before it is shown
CompileFailedResets(s, source) == ShowErrors(Reset(s), CompileErrors(source))

\* compileStory on a source that does not compile: showErrors, return null
CompileFailed(s, source) == ShowErrors(s, CompileErrors(source))

\* Mutant of InitializeStoryReset: the new story manager is installed on top
\* of the running session
InitializeStoryNoReset(s, ad) == SetStoryManager(s, ad)

\* PreviewController.initializeStory up to the readiness gate
InitializeStoryReset(s, ad) == Reset(SetStoryManager(s, ad))

\* PreviewController.initializeStory after the readiness gate
InitializeStoryStart(s) == Dispatch(s, StartStoryAction)

\* The first call of initializeStory creates the readiness gate and suspends
\* on it; every other call goes on to dispatch Start at once.
SuspendsOnGate(c) == ~c.isInitialized

\* Mutant of PreviewOutcome: the version of the last preview is not consulted
PreviewOutcomeAlwaysCompiles(m, c, d) ==
    IF ~CompileReturnsStory(d.source) THEN "failed"
    ELSE IF SuspendsOnGate(c) THEN "suspended"
    ELSE "started"

\* What preview(document) does, as the name of its outcome
PreviewOutcome(m, c, d) ==
    IF m.uri # "none" /\ m.uri = "doc" /\ m.version = d.version THEN "same"
    ELSE IF ~CompileReturnsStory(d.source) THEN "failed"
    ELSE IF SuspendsOnGate(c) THEN "suspended"
    ELSE "started"

\* PreviewManager.preview(document) on manager m, controller c, session s
PreviewMgr(m, d) ==
    IF m.uri # "none" /\ m.uri = "doc" /\ m.version = d.version
    THEN m
    ELSE [m EXCEPT !.uri = "doc", !.version = d.version]

PreviewCtl(m, c, d) ==
    IF PreviewOutcome(m, c, d) = "suspended"
    THEN [c EXCEPT !.isInitialized = TRUE, !.viewReadyDeferred = "pending"]
    ELSE c

PreviewSm(m, c, s, d) ==
    IF PreviewOutcome(m, c, d) = "same" THEN s
    ELSE IF PreviewOutcome(m, c, d) = "failed" THEN CompileFailed(s, d.source)
    ELSE IF PreviewOutcome(m, c, d) = "suspended"
    THEN InitializeStoryReset(s, NewAdapter(d.source))
    ELSE InitializeStoryStart(InitializeStoryReset(s, NewAdapter(d.source)))

\* Mutant of GetManager: the fields of the disposed manager are handed on
GetManagerRemembers == mgr

\* PreviewManager.getInstance: the fields of the instance it returns
GetManager == IF instance THEN mgr ELSE NewManager

GetController == IF instance THEN ctl ELSE NewController

GetSession == IF instance THEN Quiet(sm) ELSE NewSession

\* The ActionLog stays within the explored length
LogFits(s) == Len(s.log) <= MaxLog

\* ------------------------------------------------------------------ extension host
\* The user edits the document: a new version with a new text
EditDocument ==
    /\ doc.version < MaxVersion
    /\ \E src \in Sources : doc' = [version |-> doc.version + 1, source |-> src]
    /\ sm' = Quiet(sm)
    /\ lastOp' = Op("edit", "none", 0, "none")
    /\ UNCHANGED <<instance, mgr, ctl, readySeen>>

\* The user edits the document into any text, also one the compiler throws on
EditDocumentAny ==
    /\ doc.version < MaxVersion
    /\ \E src \in AllSources : doc' = [version |-> doc.version + 1, source |-> src]
    /\ sm' = Quiet(sm)
    /\ lastOp' = Op("edit", "none", 0, "none")
    /\ UNCHANGED <<instance, mgr, ctl, readySeen>>

\* The command ink-command-style.preview on the active ink document
PreviewCommand ==
    /\ LogFits(PreviewSm(GetManager, GetController, GetSession, doc))
    /\ instance' = TRUE
    /\ mgr' = PreviewMgr(GetManager, doc)
    /\ ctl' = PreviewCtl(GetManager, GetController, doc)
    /\ sm' = PreviewSm(GetManager, GetController, GetSession, doc)
    /\ readySeen' = (instance /\ readySeen)
    /\ lastOp' = Op("previewCommand", "none", 0, PreviewOutcome(GetManager, GetController, doc))
    /\ UNCHANGED doc

\* Mutant of IsLiveUpdateEnabled: the flag is not consulted
IsLiveUpdateEnabledAlways(m) == TRUE

\* PreviewManager.isLiveUpdateEnabled()
IsLiveUpdateEnabled(m) == m.liveUpdateEnabled

\* onDidSaveTextDocument for the ink document
SaveDocument ==
    /\ instance' = TRUE
    /\ IF IsLiveUpdateEnabled(GetManager)
       THEN /\ LogFits(PreviewSm(GetManager, GetController, GetSession, doc))
            /\ mgr' = PreviewMgr(GetManager, doc)
            /\ ctl' = PreviewCtl(GetManager, GetController, doc)
            /\ sm' = PreviewSm(GetManager, GetController, GetSession, doc)
            /\ lastOp' = Op("save", "none", 0, PreviewOutcome(GetManager, GetController, doc))
       ELSE /\ mgr' = GetManager
            /\ ctl' = GetController
            /\ sm' = GetSession
            /\ lastOp' = Op("save", "none", 0, "off")
    /\ readySeen' = (instance /\ readySeen)
    /\ UNCHANGED doc

\* Mutant of DisposeControllerSm: the state manager is left alive
DisposeKeepsStateManager(s) == s

\* PreviewController.dispose(): the state manager is disposed and the message
\* handlers are unregistered
DisposeControllerSm(s) == DisposeSession(s)

\* The user closes the preview panel: onDidDispose -> PreviewManager.dispose,
\* which disposes the controller and clears the static instance
DisposePanel ==
    /\ instance
    /\ instance' = FALSE
    /\ sm' = DisposeControllerSm(Quiet(sm))
    /\ lastOp' = Op("dispose", "none", 0, "none")
    /\ UNCHANGED <<doc, mgr, ctl, readySeen>>

\* ------------------------------------------------------------------ PreviewController
\* The choiceIndex values an inbound SelectChoice carries: no story offers
\* more than two choices, so 1 is out of range wherever a larger index is.
ChoiceIndexes == {0, 1}

\* The action types an inbound `action` message may carry; "Bogus" stands for
\* every type createAction does not know.
KnownTypes == {"Start", "SelectChoice", "Rewind", "ToggleLiveUpdate"}

MessageTypes == KnownTypes \cup {"Bogus"}

\* Mutant of CreateAction: the Rewind branch builds a Start action
CreateActionRewindStarts(type, index, enabled) ==
    IF type = "Start" THEN StartStoryAction
    ELSE IF type = "SelectChoice" THEN SelectChoiceAction(index)
    ELSE IF type = "Rewind" THEN StartStoryAction
    ELSE ToggleLiveUpdateUIAction(enabled)

\* Mutant of CreateAction: the payload's choiceIndex is not passed on
CreateActionDropsIndex(type, index, enabled) ==
    IF type = "Start" THEN StartStoryAction
    ELSE IF type = "SelectChoice" THEN SelectChoiceAction(0)
    ELSE IF type = "Rewind" THEN RewindStoryAction
    ELSE ToggleLiveUpdateUIAction(enabled)

\* createAction(data) for a known data.type
CreateAction(type, index, enabled) ==
    IF type = "Start" THEN StartStoryAction
    ELSE IF type = "SelectChoice" THEN SelectChoiceAction(index)
    ELSE IF type = "Rewind" THEN RewindStoryAction
    ELSE ToggleLiveUpdateUIAction(enabled)

\* createAction throws on every other data.type
CreateActionThrows(type) == type \notin KnownTypes

\* executeAction(data): the throw of createAction leaves the handler before
\* dispatch is reached
ExecuteAction(s, type, index, enabled) ==
    IF CreateActionThrows(type) THEN s
    ELSE Dispatch(s, CreateAction(type, index, enabled))

\* Mutant of RefreshStorySm: the new story manager is not handed over
RefreshStoryKeepsAdapter(s, ad) == Replay(s)

\* Mutant of RefreshStorySm: the story is restarted on top of the session
RefreshStoryRestarts(s, ad) == Dispatch(SetStoryManager(s, ad), StartStoryAction)

\* Mutant of RefreshStorySm: the session is emptied before the replay
RefreshStoryResets(s, ad) == Replay(Reset(SetStoryManager(s, ad)))

\* refreshStory(storyManager)
RefreshStorySm(s, ad) == Replay(SetStoryManager(s, ad))

\* Mutant of ShowCompilationErrorSm: the error joins the running session
ShowCompilationErrorNoReset(s) == ShowErrors(s, <<"CouldNotCompile">>)

\* showCompilationError()
ShowCompilationErrorSm(s) == ShowErrors(Reset(s), <<"CouldNotCompile">>)

\* addFunctionEvent(functionEvent)
AddFunctionEventSm(s) == Dispatch(s, AddStoryEventsAction(<<"fn">>))

\* The message handlers registered by setupMessageHandlers are still in place
HandlersRegistered == instance /\ ~sm.disposed

\* Mutant of ReadyReleases: every `ready` after the first initializeStory
\* runs the continuation again
ReadyReleasesAlways(c) == c.isInitialized

\* The `ready` handler, followed by the continuation of initializeStory that
\* the resolved deferred releases
ReadyReleases(c) == c.viewReadyDeferred = "pending"

ReadyMsg ==
    /\ HandlersRegistered
    /\ readySeen' = TRUE
    /\ IF ReadyReleases(ctl)
       THEN /\ LogFits(InitializeStoryStart(Quiet(sm)))
            /\ ctl' = [ctl EXCEPT !.viewReadyDeferred = "null"]
            /\ sm' = InitializeStoryStart(Quiet(sm))
            /\ lastOp' = Op("ready", "none", 0, "released")
       ELSE /\ ctl' = ctl
            /\ sm' = Quiet(sm)
            /\ lastOp' = Op("ready", "none", 0, "noop")
    /\ UNCHANGED <<doc, instance, mgr>>

\* The webview posts user intents once its script has started, which it
\* announces with `ready`.
WebviewLive == HandlersRegistered /\ readySeen

\* The `action` handler
ActionMsg ==
    /\ WebviewLive
    /\ \E type \in MessageTypes, index \in ChoiceIndexes, enabled \in BOOLEAN :
          /\ type # "SelectChoice" => index = 0
          /\ type # "ToggleLiveUpdate" => enabled = FALSE
          /\ LogFits(ExecuteAction(Quiet(sm), type, index, enabled))
          /\ sm' = ExecuteAction(Quiet(sm), type, index, enabled)
          /\ lastOp' = Op("action", type, index,
                          IF CreateActionThrows(type) THEN "thrown" ELSE "dispatched")
    /\ UNCHANGED <<doc, instance, mgr, ctl, readySeen>>

\* The `toggleLiveUpdate` handler and the callback PreviewManager registers
ToggleLiveUpdateMsg ==
    /\ WebviewLive
    /\ \E enabled \in BOOLEAN :
          /\ mgr' = [mgr EXCEPT !.liveUpdateEnabled = enabled]
          /\ lastOp' = Op("toggleLiveUpdate", "none", 0, IF enabled THEN "on" ELSE "off")
    /\ sm' = Quiet(sm)
    /\ UNCHANGED <<doc, instance, ctl, readySeen>>

\* ------------------------------------------------------------------ jump to line
\* The text of the document, character by character; a line break is "\n".
DocText(source) ==
    IF source = "A" THEN <<"a", "\n", "b", " ", "c">>
    ELSE IF source = "B" THEN <<"a", "\n", "c">>
    ELSE <<"b">>

\* payload.text of a jumpToLine message, character by character; "" stands
\* for an empty or absent text, both of which are falsy.
PayloadTexts == {"", "c", " c ", "b c", "  ", "z", "cb"}

TextChars(t) ==
    IF t = "c" THEN <<"c">>
    ELSE IF t = " c " THEN <<" ", "c", " ">>
    ELSE IF t = "b c" THEN <<"b", " ", "c">>
    ELSE IF t = "  " THEN <<" ", " ">>
    ELSE IF t = "z" THEN <<"z">>
    ELSE IF t = "cb" THEN <<"c", "b">>
    ELSE <<>>

\* payload.line of a jumpToLine message; NoLine stands for undefined
NoLine == -1
PayloadLines == {NoLine, 0, 1}

IsSpace(ch) == ch \in {" ", "\n"}

\* String.prototype.trim
RECURSIVE TrimStart(_)
TrimStart(t) ==
    IF t # <<>> /\ IsSpace(Head(t)) THEN TrimStart(Tail(t)) ELSE t

RECURSIVE TrimEnd(_)
TrimEnd(t) ==
    IF t # <<>> /\ IsSpace(t[Len(t)]) THEN TrimEnd(SubSeq(t, 1, Len(t) - 1)) ELSE t

Trim(t) == TrimEnd(TrimStart(t))

\* String.prototype.indexOf: the first index, from 0, at which t starts in d,
\* -1 when there is none
RECURSIVE IndexFrom(_, _, _)
IndexFrom(d, t, i) ==
    IF i + Len(t) > Len(d) THEN -1
    ELSE IF SubSeq(d, i + 1, i + Len(t)) = t THEN i
    ELSE IndexFrom(d, t, i + 1)

IndexOf(d, t) == IndexFrom(d, t, 0)

\* Mutant of JumpOutcome: a text that is not found opens the editor all the same
JumpOutcomeAlwaysShows(hasUri, line, text, d) ==
    IF ~hasUri THEN "noDocument"
    ELSE IF line # NoLine \/ text # "" THEN "shown"
    ELSE "ignored"

\* The jumpToLine handler, as the name of its outcome: "shown" when it opens
\* the editor and moves the cursor, "notFound" when it warns and returns,
\* "ignored" when the payload names neither line nor text, "noDocument" when
\* no document URI has been set
JumpOutcome(hasUri, line, text, d) ==
    IF ~hasUri THEN "noDocument"
    ELSE IF line # NoLine THEN "shown"
    ELSE IF text # ""
    THEN IF IndexOf(d, Trim(TextChars(text))) # -1 THEN "shown" ELSE "notFound"
    ELSE "ignored"

\* The webview posts jumpToLine.  The handler reads the document and drives
\* the editor; it calls nothing of the state manager.
JumpToLineMsg ==
    /\ HandlersRegistered
    /\ \E line \in PayloadLines, text \in PayloadTexts :
          lastOp' = Op("jumpToLine", text, line,
                       JumpOutcome(mgr.uri # "none", line, text, DocText(doc.source)))
    /\ sm' = Quiet(sm)
    /\ UNCHANGED <<doc, instance, mgr, ctl, readySeen>>

\* ------------------------------------------------------------------ divert targets
\* Lines of an ink document, character by character.
KnotK == <<"=", "=", " ", "k", " ", "=", "=">>
KnotJ == <<"=", "=", "=", " ", "j", " ", "=", "=", "=">>
KnotOpenJ == <<"=", "=", "=", " ", "j">>
KnotTightK == <<"=", "=", "k", "=", "=">>
StitchS == <<"=", " ", "s">>
StitchIndentedS == <<" ", "=", " ", "s", " ">>
StitchK == <<"=", " ", "k">>
PlainLine == <<"x">>

InkLines ==
    {KnotK, KnotJ, KnotOpenJ, KnotTightK, StitchS, StitchIndentedS, StitchK, PlainLine}

\* document.getText().split('\n'): every document of up to MaxLines lines
Documents == UNION {[1..n -> InkLines] : n \in 0..MaxLines}

\* The divert targets asked for, and their characters
Targets == {"k", "j", "s", "k.s", "j.s", "j.k"}

TargetChars(t) ==
    IF t = "k" THEN <<"k">>
    ELSE IF t = "j" THEN <<"j">>
    ELSE IF t = "s" THEN <<"s">>
    ELSE IF t = "k.s" THEN <<"k", ".", "s">>
    ELSE IF t = "j.s" THEN <<"j", ".", "s">>
    ELSE <<"j", ".", "k">>

\* target.split('.')
RECURSIVE SplitDot(_, _, _)
SplitDot(chars, part, parts) ==
    IF chars = <<>> THEN Append(parts, part)
    ELSE IF Head(chars) = "." THEN SplitDot(Tail(chars), <<>>, Append(parts, part))
    ELSE SplitDot(Tail(chars), Append(part, Head(chars)), parts)

Split(chars) == SplitDot(chars, <<>>, <<>>)

\* Character classes of the regular expressions: \s and [\w_]
SpaceChars == {" "}
WordChars == {"k", "j", "s", "x"}

\* The first position from i on, counted from 1, whose character is not in
\* the class; Len + 1 when the class runs to the end of the line
RECURSIVE SkipClass(_, _, _)
SkipClass(l, i, class) ==
    IF i <= Len(l) /\ l[i] \in class THEN SkipClass(l, i + 1, class) ELSE i

\* line.match(/^[\s]*(===?)\s+([\w_]+)\s*(===?)\s*$/): group 2, <<>> when the
\* line does not match
KnotMatch(l) ==
    LET a == SkipClass(l, 1, SpaceChars)
        b == SkipClass(l, a, {"="})
        c == SkipClass(l, b, SpaceChars)
        d == SkipClass(l, c, WordChars)
        e == SkipClass(l, d, SpaceChars)
        f == SkipClass(l, e, {"="})
        g == SkipClass(l, f, SpaceChars)
    IN IF /\ b - a \in {2, 3}
          /\ c > b
          /\ d > c
          /\ f - e \in {2, 3}
          /\ g = Len(l) + 1
       THEN SubSeq(l, c, d - 1)
       ELSE <<>>

\* /^[\s]*(===?)/.test(line)
KnotStart(l) ==
    LET a == SkipClass(l, 1, SpaceChars)
        b == SkipClass(l, a, {"="})
    IN b - a >= 2

\* line.match(/^[\s]*=\s+([\w_]+)\s*$/): group 1, <<>> when the line does not
\* match
StitchMatch(l) ==
    LET a == SkipClass(l, 1, SpaceChars)
        b == SkipClass(l, a, {"="})
        c == SkipClass(l, b, SpaceChars)
        d == SkipClass(l, c, WordChars)
        e == SkipClass(l, d, SpaceChars)
    IN IF /\ b - a = 1
          /\ c > b
          /\ d > c
          /\ e = Len(l) + 1
       THEN SubSeq(l, c, d - 1)
       ELSE <<>>

\* No line resolved: the warning of _jumpToTarget, the null of findKnotOrStitch
NotFound == -1

\* InkVisualizerPanel._jumpToTarget: the inner loop over the lines after the
\* knot header, lines counted from 0
RECURSIVE JumpStitch(_, _, _)
JumpStitch(lines, j, stitchName) ==
    IF j >= Len(lines) THEN NotFound
    ELSE IF KnotStart(lines[j + 1]) THEN NotFound
    ELSE IF StitchMatch(lines[j + 1]) # <<>> /\ StitchMatch(lines[j + 1]) = stitchName THEN j
    ELSE JumpStitch(lines, j + 1, stitchName)

\* InkVisualizerPanel._jumpToTarget: the outer loop
RECURSIVE JumpScan(_, _, _)
JumpScan(lines, parts, i) ==
    IF i >= Len(lines) THEN NotFound
    ELSE LET line == lines[i + 1]
             knotName == parts[1]
             stitchName == IF Len(parts) > 1 THEN parts[2] ELSE <<>>
             isKnot == KnotMatch(line) # <<>> /\ KnotMatch(line) = knotName
             inKnot == IF isKnot /\ stitchName # <<>>
                       THEN JumpStitch(lines, i + 1, stitchName)
                       ELSE NotFound
         IN IF isKnot /\ stitchName = <<>> THEN i
            ELSE IF inKnot # NotFound THEN inKnot
            ELSE IF /\ stitchName = <<>>
                    /\ Len(parts) = 1
                    /\ StitchMatch(line) # <<>>
                    /\ StitchMatch(line) = parts[1]
            THEN i
            ELSE JumpScan(lines, parts, i + 1)

\* InkVisualizerPanel._jumpToTarget(target): the line handed to _jumpToLine
JumpToTarget(lines, target) == JumpScan(lines, Split(TargetChars(target)), 0)

\* Mutant of FindStitch: the search runs on past the next knot
FindStitchAcrossKnots(lines, j, stitchName) ==
    IF \E m \in j..(Len(lines) - 1) : StitchMatch(lines[m + 1]) = stitchName
    THEN CHOOSE m \in j..(Len(lines) - 1) :
            /\ StitchMatch(lines[m + 1]) = stitchName
            /\ \A n \in j..(m - 1) : StitchMatch(lines[n + 1]) # stitchName
    ELSE NotFound

\* InkDefinitionProvider.findKnotOrStitch: the inner loop over the lines
\* after the knot header, lines counted from 0
RECURSIVE FindStitch(_, _, _)
FindStitch(lines, j, stitchName) ==
    IF j >= Len(lines) THEN NotFound
    ELSE IF KnotStart(lines[j + 1]) THEN NotFound
    ELSE IF StitchMatch(lines[j + 1]) # <<>> /\ StitchMatch(lines[j + 1]) = stitchName THEN j
    ELSE FindStitch(lines, j + 1, stitchName)

\* InkDefinitionProvider.findKnotOrStitch: the outer loop
RECURSIVE FindScan(_, _, _)
FindScan(lines, parts, i) ==
    IF i >= Len(lines) THEN NotFound
    ELSE LET line == lines[i + 1]
             knotName == parts[1]
             stitchName == IF Len(parts) > 1 THEN parts[2] ELSE <<>>
             isKnot == KnotMatch(line) # <<>> /\ KnotMatch(line) = knotName
             inKnot == IF isKnot /\ stitchName # <<>>
                       THEN FindStitch(lines, i + 1, stitchName)
                       ELSE NotFound
         IN IF isKnot /\ stitchName = <<>> THEN i
            ELSE IF inKnot # NotFound THEN inKnot
            ELSE IF /\ stitchName = <<>>
                    /\ Len(parts) = 1
                    /\ StitchMatch(line) # <<>>
                    /\ StitchMatch(line) = parts[1]
            THEN i
            ELSE FindScan(lines, parts, i + 1)

\* InkDefinitionProvider.findKnotOrStitch(document, target): the line of the
\* Location it returns
FindKnotOrStitch(lines, target) == FindScan(lines, Split(TargetChars(target)), 0)

\* The visualizer's webview posts jumpToTarget; doc.source holds the lines of
\* the current document
JumpToTargetMsg ==
    /\ \E target \in Targets :
          lastOp' = Op("jumpToTarget", target, JumpToTarget(doc.source, target),
                       IF JumpToTarget(doc.source, target) = NotFound
                       THEN "notFound" ELSE "found")
    /\ UNCHANGED <<doc, instance, mgr, ctl, sm, readySeen>>

\* Go to definition on a divert target of the document
ProvideDefinition ==
    /\ \E target \in Targets :
          lastOp' = Op("findKnotOrStitch", target, FindKnotOrStitch(doc.source, target),
                       IF FindKnotOrStitch(doc.source, target) = NotFound
                       THEN "notFound" ELSE "found")
    /\ UNCHANGED <<doc, instance, mgr, ctl, sm, readySeen>>

\* ------------------------------------------------------------------ controller API
\* Public methods of PreviewController called directly.
InitializeStory ==
    /\ instance
    /\ \E src \in GoodSources :
          /\ ctl' = IF SuspendsOnGate(ctl)
                    THEN [ctl EXCEPT !.isInitialized = TRUE, !.viewReadyDeferred = "pending"]
                    ELSE ctl
          /\ sm' = IF SuspendsOnGate(ctl)
                   THEN InitializeStoryReset(Quiet(sm), NewAdapter(src))
                   ELSE InitializeStoryStart(InitializeStoryReset(Quiet(sm), NewAdapter(src)))
          /\ lastOp' = Op("initializeStory", src, 0,
                          IF SuspendsOnGate(ctl) THEN "suspended" ELSE "started")
    /\ UNCHANGED <<doc, instance, mgr, readySeen>>

ShowErrorsCall ==
    /\ instance
    /\ LogFits(ShowErrors(Quiet(sm), <<"CompileError">>))
    /\ sm' = ShowErrors(Quiet(sm), <<"CompileError">>)
    /\ lastOp' = Op("showErrors", "none", 0, "none")
    /\ UNCHANGED <<doc, instance, mgr, ctl, readySeen>>

RefreshStory ==
    /\ instance
    /\ \E src \in GoodSources :
          /\ sm' = RefreshStorySm(Quiet(sm), NewAdapter(src))
          /\ lastOp' = Op("refreshStory", src, 0,
                          IF lastOp.op = "refreshStory" /\ lastOp.type = src
                          THEN "replayedAgain" ELSE "replayed")
    /\ UNCHANGED <<doc, instance, mgr, ctl, readySeen>>

ShowCompilationError ==
    /\ instance
    /\ sm' = ShowCompilationErrorSm(Quiet(sm))
    /\ lastOp' = Op("showCompilationError", "none", 0, "none")
    /\ UNCHANGED <<doc, instance, mgr, ctl, readySeen>>

AddFunctionEvent ==
    /\ instance
    /\ LogFits(AddFunctionEventSm(Quiet(sm)))
    /\ sm' = AddFunctionEventSm(Quiet(sm))
    /\ lastOp' = Op("addFunctionEvent", "none", 0, "none")
    /\ UNCHANGED <<doc, instance, mgr, ctl, readySeen>>

\* controller.dispose()
DisposeController ==
    /\ instance
    /\ ~sm.disposed
    /\ sm' = DisposeControllerSm(Quiet(sm))
    /\ lastOp' = Op("dispose", "none", 0, "none")
    /\ UNCHANGED <<doc, instance, mgr, ctl, readySeen>>

\* ------------------------------------------------------------------ specifications
\* The extension as wired: commands, save events and webview messages
Next ==
    \/ EditDocument
    \/ PreviewCommand
    \/ SaveDocument
    \/ ReadyMsg
    \/ ActionMsg
    \/ ToggleLiveUpdateMsg

Spec == Init /\ [][Next]_vars

\* PreviewController on its own, constructed and driven through its public
\* methods and its message handlers by an arbitrary caller
InitApi ==
    /\ doc = [version |-> 1, source |-> "A"]
    /\ instance = TRUE
    /\ mgr = NewManager
    /\ ctl = NewController
    /\ sm = NewSession
    /\ readySeen = FALSE
    /\ lastOp = Op("init", "none", 0, "none")

NextApi ==
    \/ InitializeStory
    \/ RefreshStory
    \/ ShowErrorsCall
    \/ ShowCompilationError
    \/ AddFunctionEvent
    \/ ReadyMsg
    \/ ActionMsg

SpecApi == InitApi /\ [][NextApi]_vars

\* The extension as wired, with the preview panel closed and opened again
NextLife ==
    \/ Next
    \/ DisposePanel

SpecLife == Init /\ [][NextLife]_vars

\* The two searches for a divert target, over every document of InkLines
InitJump ==
    /\ doc \in [version : {1}, source : Documents]
    /\ instance = FALSE
    /\ mgr = NewManager
    /\ ctl = NewController
    /\ sm = NewSession
    /\ readySeen = FALSE
    /\ lastOp = Op("init", "none", 0, "none")

NextJump ==
    \/ JumpToTargetMsg
    \/ ProvideDefinition

SpecJump == InitJump /\ [][NextJump]_vars

\* The preview over every outcome of the compiler
InitCompile ==
    /\ doc \in [version : {1}, source : AllSources]
    /\ instance = FALSE
    /\ mgr = NewManager
    /\ ctl = NewController
    /\ sm = NewSession
    /\ readySeen = FALSE
    /\ lastOp = Op("init", "none", 0, "none")

NextCompile ==
    \/ EditDocumentAny
    \/ PreviewCommand
    \/ SaveDocument
    \/ ReadyMsg

SpecCompile == InitCompile /\ [][NextCompile]_vars

\* The preview with the source navigation of the webview
NextNav ==
    \/ EditDocument
    \/ PreviewCommand
    \/ ReadyMsg
    \/ JumpToLineMsg

SpecNav == Init /\ [][NextNav]_vars

\* The controller under calls of its public methods, messages and dispose()
NextDispose ==
    \/ NextApi
    \/ DisposeController

SpecDispose == InitApi /\ [][NextDispose]_vars

\* ------------------------------------------------------------------ properties
HasType(l, t) == \E k \in 1..Len(l) : l[k].type = t

IsPreviewStep(op) == op.op \in {"previewCommand", "save"}

\* C1: no Start action is dispatched to the state manager before a `ready`
\* message has been received from the webview, whichever call of
\* initializeStory dispatches it.
C1_NoStartBeforeReady == HasType(sm.log, "Start") => readySeen

\* C2: when the script of a session in progress (started, with a choice made)
\* is edited and compiles, the existing ActionLog is kept and replayed against
\* the new adapter; with every logged choice still valid the State after the
\* recompile is the replay of that log on the new story, so it holds the text
\* of every prior SelectChoice.
C2_RecompileKeepsLog ==
    [][(/\ IsPreviewStep(lastOp')
        /\ lastOp'.result = "started"
        /\ ctl.viewReadyDeferred = "null"
        /\ HasType(sm.log, "Start")
        /\ HasType(sm.log, "SelectChoice")
        /\ ~ReplayResult(sm.log, NewAdapter(doc.source)).div)
       => (/\ sm'.log = sm.log
           /\ sm'.state = ReplayResult(sm.log, NewAdapter(doc.source)).state)]_vars

\* C3: a failed (re)compile leaves the session alone: the adapter is not
\* replaced, the ActionLog is not reset but extended by one RecordErrors
\* action, transcript and choices are unchanged, and the compile errors are
\* appended to the State's errors.
C3_CompileFailureKeepsSession ==
    [][(IsPreviewStep(lastOp') /\ lastOp'.result = "failed")
       => (/\ sm'.adapter = sm.adapter
           /\ sm'.log = Append(sm.log, AddErrorsAction(<<"CompileError">>))
           /\ sm'.state.transcript = sm.state.transcript
           /\ sm'.state.choices = sm.state.choices
           /\ sm'.state = [sm.state EXCEPT !.errors = sm.state.errors \o <<"CompileError">>])]_vars

\* C3 witness: a compile failure met a session with a transcript and choices
C3_Witness ==
    /\ IsPreviewStep(lastOp)
    /\ lastOp.result = "failed"
    /\ Len(sm.state.transcript) >= 2
    /\ sm.state.choices # <<>>
    /\ sm.state.errors = <<"CompileError">>
    /\ sm.log[Len(sm.log)].type = "RecordErrors"

\* Count of the entries of a sequence equal to x
RECURSIVE Count(_, _)
Count(q, x) == IF q = <<>> THEN 0 ELSE (IF Head(q) = x THEN 1 ELSE 0) + Count(Tail(q), x)

\* The plain fold of a log by the Reducer, every action applied, from the empty
\* State on a freshly started adapter
RECURSIVE PlainFold(_, _)
PlainFold(l, ad) ==
    IF l = <<>> THEN [state |-> EmptyState, adapter |-> AdapterStart(ad)]
    ELSE LET p == PlainFold(SubSeq(l, 1, Len(l) - 1), ad)
             a == l[Len(l)]
         IN [state |-> ReduceState(p.state, p.adapter, a),
             adapter |-> ReduceAdapter(p.adapter, a)]

\* l[k] is a SelectChoice whose index is out of range where the log stands
Diverges(l, ad, k) ==
    /\ l[k].type = "SelectChoice"
    /\ ~ValidChoice(PlainFold(SubSeq(l, 1, k - 1), ad).adapter, l[k].index)

\* The first divergent SelectChoice of the log on this adapter, 0 if none
FirstDivergence(l, ad) ==
    IF \E k \in 1..Len(l) : Diverges(l, ad, k)
    THEN CHOOSE k \in 1..Len(l) :
            /\ Diverges(l, ad, k)
            /\ \A j \in 1..(k - 1) : ~Diverges(l, ad, j)
    ELSE 0

IsNotChoice(a) == a.type # "SelectChoice"

\* The log as replay applies it: all of it up to and including the first
\* divergent SelectChoice, and only the non-choice actions after it
AppliedLog(l, ad) ==
    IF FirstDivergence(l, ad) = 0 THEN l
    ELSE SubSeq(l, 1, FirstDivergence(l, ad))
         \o SelectSeq(SubSeq(l, FirstDivergence(l, ad) + 1, Len(l)), IsNotChoice)

\* C4: replay against a recompiled adapter records exactly one InvalidChoice
\* error for the first out-of-range SelectChoice of the log, applies no later
\* SelectChoice to the adapter and still applies every later non-choice action
\* in order: State and adapter are those of the plain fold of the log without
\* the SelectChoice actions that follow the first divergence.
C4_ReplayStopsChoicesAtDivergence ==
    [][lastOp'.op = "refreshStory"
       => LET ad == NewAdapter(lastOp'.type)
              k == FirstDivergence(sm.log, ad)
              applied == PlainFold(AppliedLog(sm.log, ad), ad)
          IN /\ sm'.log = sm.log
             /\ sm'.state = applied.state
             /\ Count(sm'.state.errors, "InvalidChoice") = (IF k = 0 THEN 0 ELSE 1)
             /\ sm'.adapter = applied.adapter]_vars

\* C4 witness: log [Start, SelectChoice{0}, SelectChoice{1}] replayed on story
\* B, where "left" offers one choice only
C4_Witness ==
    /\ lastOp.op = "refreshStory"
    /\ sm.adapter = [story |-> "B", pos |-> "left"]
    /\ sm.log = <<StartStoryAction, SelectChoiceAction(0), SelectChoiceAction(1)>>
    /\ sm.state.transcript = <<"intro", "left">>
    /\ sm.state.errors = <<"InvalidChoice">>

\* l2 is l with its last SelectChoice and every action after it removed
IsRewindPrefix(l, l2) ==
    /\ Len(l2) < Len(l)
    /\ l2 = SubSeq(l, 1, Len(l2))
    /\ l[Len(l2) + 1].type = "SelectChoice"
    /\ \A j \in (Len(l2) + 2)..Len(l) : l[j].type # "SelectChoice"

\* C5: a Rewind on a log L that holds a SelectChoice leaves the log L', L
\* without its last SelectChoice and everything after it, does not append the
\* Rewind, and yields the State that replay(L') produces from the empty State
\* on a fresh adapter of the same story.
C5_RewindIsReplayOfPrefix ==
    [][(lastOp'.op = "action" /\ lastOp'.type = "Rewind" /\ HasType(sm.log, "SelectChoice"))
       => (/\ IsRewindPrefix(sm.log, sm'.log)
           /\ ~HasType(sm'.log, "Rewind")
           /\ sm'.state = ReplayResult(sm'.log, NewAdapter(sm.adapter.story)).state)]_vars

\* C5 witness: a Rewind undid the second of two choices and what followed it
C5_Witness ==
    /\ lastOp.op = "action"
    /\ lastOp.type = "Rewind"
    /\ sm.log = <<StartStoryAction, SelectChoiceAction(0)>>
    /\ sm.state.transcript = <<"intro", "left">>
    /\ sm.adapter.pos = "left"

C7_InvalidChoiceRecorded ==
    [][(/\ lastOp'.op = "action"
        /\ lastOp'.type = "SelectChoice"
        /\ ~ValidChoice(sm.adapter, lastOp'.index))
       => (/\ sm'.adapter = sm.adapter
           /\ sm'.state.transcript = sm.state.transcript
           /\ sm'.state.errors = Append(sm.state.errors, "InvalidChoice")
           /\ lastOp'.result = "dispatched")]_vars

\* C7 witness: SelectChoice{1} arrived where story B offers one choice only
C7_Witness ==
    /\ lastOp.op = "action"
    /\ lastOp.type = "SelectChoice"
    /\ lastOp.index = 1
    /\ sm.adapter = [story |-> "B", pos |-> "left"]
    /\ sm.state.transcript = <<"intro", "left">>
    /\ sm.state.errors = <<"InvalidChoice">>

\* C8: an inbound action of an unknown type is recorded as an UnknownAction
\* error in the State's errors and pushed to the webview with updateState; no
\* exception leaves the handler, and the rest of the State and the ActionLog
\* are unchanged.
C8_UnknownActionRecorded ==
    [][(lastOp'.op = "action" /\ lastOp'.type \notin KnownTypes)
       => (/\ lastOp'.result # "thrown"
           /\ sm'.state = [sm.state EXCEPT !.errors = Append(sm.state.errors, "UnknownAction")]
           /\ sm'.sent = <<sm'.state>>
           /\ sm'.log = sm.log)]_vars

\* C9: at most one recompile-and-reinitialize transaction is in flight: while
\* an initializeStory call is suspended on the readiness gate, a further
\* preview request does not run against the session (no error dispatch, no
\* reset, no adapter swap, no Start) but waits for the one in flight.
C9_NoRecompileWhileInFlight ==
    [][(ctl.viewReadyDeferred = "pending" /\ IsPreviewStep(lastOp'))
       => (/\ sm'.log = sm.log
           /\ sm'.state = sm.state
           /\ sm'.adapter = sm.adapter)]_vars

\* C10: an inbound action that arrives while a re-initialization is in
\* progress (reset done, Start still waiting on the readiness gate) is queued,
\* not applied to the half-swapped session.
C10_ActionQueuedDuringReinit ==
    [][(ctl.viewReadyDeferred = "pending" /\ lastOp'.op = "action")
       => (/\ sm'.log = sm.log
           /\ sm'.state = sm.state
           /\ sm'.adapter = sm.adapter)]_vars

\* C11: a `ready` message that arrives while an initializeStory call is
\* suspended on the readiness gate releases the pending Start exactly once
\* (the ActionLog grows by that one Start and the gate is cleared); every
\* other `ready` message dispatches nothing, posts nothing and changes
\* neither State nor ActionLog.
C11_ReadyReleasesOnce ==
    [][(lastOp'.op = "ready")
       => IF ctl.viewReadyDeferred = "pending"
          THEN /\ sm'.log = Append(sm.log, StartStoryAction)
               /\ sm'.sent = <<sm'.state>>
               /\ ctl'.viewReadyDeferred = "null"
          ELSE /\ sm'.log = sm.log
               /\ sm'.state = sm.state
               /\ sm'.adapter = sm.adapter
               /\ sm'.sent = <<>>
               /\ ctl' = ctl]_vars

\* C11 witness: a second `ready` met a session whose gate had been released
\* by an earlier one, and left its one Start alone
C11_Witness ==
    /\ lastOp.op = "ready"
    /\ lastOp.result = "noop"
    /\ ctl.isInitialized
    /\ ctl.viewReadyDeferred = "null"
    /\ Count(sm.log, StartStoryAction) = 1

\* C12: after the session is disposed every pending and every future dispatch
\* is a no-op: dispose() itself disposes the session and keeps its ActionLog
\* and State, a disposed session stays disposed, and no later step (a `ready`
\* for a Start still suspended on the gate, showErrors, addFunctionEvent,
\* initializeStory, refreshStory, an inbound action) changes State or
\* ActionLog or notifies the observer.
C12_DisposedSessionInert ==
    [][/\ (lastOp'.op = "dispose" => sm'.disposed)
       /\ (sm.disposed => sm'.disposed)
       /\ ((sm'.disposed \/ lastOp.op = "dispose")
              => (/\ sm'.log = sm.log
                  /\ sm'.state = sm.state
                  /\ sm'.sent = <<>>))]_vars

\* C12 witness: showErrors was called on a disposed session that holds
\* actions in its log and whose Start is still suspended on the gate
C12_Witness ==
    /\ sm.disposed
    /\ lastOp.op = "showErrors"
    /\ ctl.viewReadyDeferred = "pending"
    /\ sm.log # <<>>
    /\ ~HasType(sm.log, "Start")

\* Number of state-manager operations (dispatch, rewind, replay, reset) that
\* the handler named by op runs to completion
OperationsOf(op) ==
    IF op.op \in {"showErrors", "addFunctionEvent", "refreshStory"} THEN 1
    ELSE IF op.op = "showCompilationError" THEN 2
    ELSE IF op.op = "initializeStory" THEN (IF op.result = "started" THEN 2 ELSE 1)
    ELSE IF op.op = "ready" THEN (IF op.result = "released" THEN 1 ELSE 0)
    ELSE IF op.op = "action" THEN (IF op.result = "dispatched" THEN 1 ELSE 0)
    ELSE 0

\* C13: the observer is invoked once per successful dispatch, rewind, replay
\* and reset, and each invocation posts one updateState message carrying the
\* full State that results from that operation: a handler that runs n
\* operations posts n messages, the last one is the State it leaves behind,
\* and where a reset comes first the first message is the empty State.
C13_OneUpdatePerOperation ==
    [][/\ Len(sm'.sent) = OperationsOf(lastOp')
       /\ (OperationsOf(lastOp') >= 1 => sm'.sent[Len(sm'.sent)] = sm'.state)
       /\ (OperationsOf(lastOp') = 2 => sm'.sent[1] = EmptyState)]_vars

\* C13 witness: an initializeStory call past the gate posted the empty State
\* of its reset and then the State of its Start, and the two differ
C13_Witness ==
    /\ lastOp.op = "initializeStory"
    /\ lastOp.result = "started"
    /\ sm.sent = <<EmptyState, sm.state>>
    /\ sm.state.transcript # <<>>
    /\ sm.state.choices # <<>>

\* The sequence l extended by exactly one entry, of type t
ExtendsByOne(l, l2, t) ==
    /\ Len(l2) = Len(l) + 1
    /\ SubSeq(l2, 1, Len(l)) = l
    /\ l2[Len(l2)].type = t

\* The handler named by op runs a reset
HasReset(op) == op.op \in {"initializeStory", "showCompilationError"}

\* The handler named by op dispatches a Rewind
IsRewindStep(op) == op.op = "action" /\ op.type = "Rewind"

\* C14: the ActionLog is append-only.  Across a step with no rewind and no
\* reset the old log is a prefix of the new one; a dispatch of a non-Rewind
\* action extends it by exactly that action, replay leaves it unchanged, a
\* Rewind cuts it at its last SelectChoice (and leaves a log with none as it
\* is), and a reset empties it before anything else is appended.
C14_LogAppendOnly ==
    [][/\ (~HasReset(lastOp') /\ ~IsRewindStep(lastOp'))
             => (Len(sm.log) <= Len(sm'.log) /\ SubSeq(sm'.log, 1, Len(sm.log)) = sm.log)
       /\ lastOp'.op = "showErrors" => ExtendsByOne(sm.log, sm'.log, "RecordErrors")
       /\ lastOp'.op = "addFunctionEvent" => ExtendsByOne(sm.log, sm'.log, "RecordEvents")
       /\ (lastOp'.op = "ready" /\ lastOp'.result = "released")
             => sm'.log = Append(sm.log, StartStoryAction)
       /\ (lastOp'.op = "action" /\ lastOp'.result = "dispatched" /\ ~IsRewindStep(lastOp'))
             => (/\ ExtendsByOne(sm.log, sm'.log, lastOp'.type)
                 /\ sm'.log[Len(sm'.log)].index = lastOp'.index)
       /\ (lastOp'.op = "action" /\ lastOp'.result = "thrown") => sm'.log = sm.log
       /\ lastOp'.op = "refreshStory" => sm'.log = sm.log
       /\ IsRewindStep(lastOp')
             => IF HasType(sm.log, "SelectChoice")
                THEN IsRewindPrefix(sm.log, sm'.log)
                ELSE sm'.log = sm.log
       /\ (lastOp'.op = "initializeStory" /\ lastOp'.result = "suspended") => sm'.log = <<>>
       /\ (lastOp'.op = "initializeStory" /\ lastOp'.result = "started")
             => sm'.log = <<StartStoryAction>>
       /\ lastOp'.op = "showCompilationError"
             => (Len(sm'.log) = 1 /\ sm'.log[1].type = "RecordErrors")]_vars

\* C14 witness: showErrors extended a log that already held a Start and a
\* SelectChoice
C14_Witness ==
    /\ lastOp.op = "showErrors"
    /\ Len(sm.log) = 3
    /\ sm.log[1].type = "Start"
    /\ sm.log[2].type = "SelectChoice"
    /\ sm.log[3].type = "RecordErrors"

\* The session s is what a completed initializeStory leaves for source src:
\* the log is exactly <<Start>> and State and adapter are those of Start
\* applied to the empty State on the new adapter
FreshlyStarted(s, src) ==
    /\ s.log = <<StartStoryAction>>
    /\ s.state = ReduceState(EmptyState, NewAdapter(src), StartStoryAction)
    /\ s.adapter = ReduceAdapter(NewAdapter(src), StartStoryAction)
    /\ s.state.transcript = <<"intro">>
    /\ s.state.errors = <<>>

\* C15: a session begins with State reset, ActionLog cleared and Start
\* dispatched: when initializeStory completes with nothing interleaved (it
\* runs through in one preview step, or its `ready` is the very next step
\* after the preview step that suspended it), the ActionLog is exactly
\* <<Start>> and the State is Start applied to the empty State on the adapter
\* of the document just compiled.
C15_InitializeStoryStartsFresh ==
    [][/\ (IsPreviewStep(lastOp') /\ lastOp'.result = "started")
             => FreshlyStarted(sm', doc.source)
       /\ (/\ lastOp'.op = "ready" /\ lastOp'.result = "released"
           /\ IsPreviewStep(lastOp) /\ lastOp.result = "suspended")
             => FreshlyStarted(sm', doc.source)]_vars

\* C15 witness: the `ready` that released the first initializeStory left a
\* session holding one Start on the adapter of the previewed document
C15_Witness ==
    /\ lastOp.op = "ready"
    /\ lastOp.result = "released"
    /\ mgr.version = doc.version
    /\ FreshlyStarted(sm, doc.source)
    /\ sm.sent = <<sm.state>>

\* C16: refreshStory(newAdapter) swaps in the new adapter and replays without
\* touching the ActionLog: the log after the call is the log before it, the
\* State is the fold of that log from the empty State onto the new adapter,
\* the session is on the new story, and the replay is pushed once.
C16_RefreshKeepsLog ==
    [][(lastOp'.op = "refreshStory")
       => (/\ sm'.log = sm.log
           /\ sm'.state = ReplayResult(sm.log, NewAdapter(lastOp'.type)).state
           /\ sm'.adapter = ReplayResult(sm.log, NewAdapter(lastOp'.type)).adapter
           /\ sm'.adapter.story = lastOp'.type
           /\ sm'.sent = <<sm'.state>>)]_vars

\* C16 witness: a log of a Start and two choices was refreshed onto story B,
\* where the second choice leads to "flee"
C16_Witness ==
    /\ lastOp.op = "refreshStory"
    /\ lastOp.type = "B"
    /\ sm.log = <<StartStoryAction, SelectChoiceAction(0), SelectChoiceAction(0)>>
    /\ sm.state.transcript = <<"intro", "left", "flee">>
    /\ sm.adapter = [story |-> "B", pos |-> "flee"]

\* The characters t occur in the characters d
Occurs(d, t) == \E i \in 0..Len(d) : i + Len(t) <= Len(d) /\ SubSeq(d, i + 1, i + Len(t)) = t

\* C17: a jump request by text (no line, a non-empty text) whose trimmed text
\* does not occur in the document is reported and is not fatal: the handler
\* warns and returns, the editor is not opened or moved, nothing is thrown,
\* and session, controller and manager are as before.
C17_JumpTextNotFound ==
    [][(/\ lastOp'.op = "jumpToLine"
        /\ lastOp'.index = NoLine
        /\ lastOp'.type # ""
        /\ ~Occurs(DocText(doc.source), Trim(TextChars(lastOp'.type))))
       => (/\ lastOp'.result = "notFound"
           /\ sm'.log = sm.log
           /\ sm'.state = sm.state
           /\ sm'.adapter = sm.adapter
           /\ sm'.sent = <<>>
           /\ ctl' = ctl
           /\ mgr' = mgr)]_vars

\* C17 witness: a jump to the text "b c", which story B does not hold, was
\* turned down while a started session was on screen
C17_Witness ==
    /\ lastOp.op = "jumpToLine"
    /\ lastOp.result = "notFound"
    /\ lastOp.type = "b c"
    /\ doc.source = "B"
    /\ HasType(sm.log, "Start")
    /\ sm.state.transcript # <<>>

\* C18: compileStory returns a story only when the compiler threw nothing and
\* reported no error; on every failure (reported errors, an exception, an
\* include file that cannot be loaded) it returns none after exactly one
\* dispatch of a RecordErrors action whose error list is not empty, pushed
\* to the webview once.
C18_CompileFailureReportsOnce ==
    [][(IsPreviewStep(lastOp') /\ lastOp'.result # "same" /\ lastOp'.result # "off")
       => (/\ (lastOp'.result # "failed")
                 <=> (doc.source \notin ThrowingSources /\ CompilerErrors(doc.source) = <<>>)
           /\ lastOp'.result = "failed"
                 => (/\ ExtendsByOne(sm.log, sm'.log, "RecordErrors")
                     /\ sm'.log[Len(sm'.log)].items # <<>>
                     /\ sm'.state.errors = sm.state.errors \o sm'.log[Len(sm'.log)].items
                     /\ Len(sm'.sent) = 1))]_vars

\* C18 witness: a compile that threw with nothing reported and no message
\* followed one that reported errors; each left one RecordErrors action
C18_Witness ==
    /\ IsPreviewStep(lastOp)
    /\ lastOp.result = "failed"
    /\ doc.source = "X"
    /\ Len(sm.log) = 2
    /\ sm.log[1].items = <<"CompileError">>
    /\ sm.log[2].type = "RecordErrors"
    /\ sm.log[2].items = <<"UnknownCompilationError">>

\* C19: once the webview has sent `ready`, every initializeStory call goes on
\* to dispatch Start, also when that `ready` came before the first call
\* created the readiness gate.  The webview owes no second `ready`, so a call
\* must never be left suspended on the gate when `ready` has already been
\* received.
C19_NoSuspensionAfterReady ==
    (instance /\ readySeen) => ctl.viewReadyDeferred # "pending"

\* C20: every Start dispatched by initializeStory is applied to a freshly
\* reset session: when the `ready` handler releases the Start of a suspended
\* call, nothing has been dispatched, reset or swapped since that call's
\* reset, so the session it meets is the empty one.
C20_StartOnFreshSession ==
    [][(lastOp'.op = "ready" /\ lastOp'.result = "released")
       => (/\ sm.log = <<>>
           /\ sm.state = EmptyState
           /\ sm'.log = <<StartStoryAction>>)]_vars

\* C21: preview(document) is idempotent per document version: a call on the
\* manager that last previewed this uri at this version, whether that
\* preview compiled or failed, returns at once: no compile, no reset, no
\* adapter swap, no dispatch, nothing posted, manager and controller as
\* before.
C21_PreviewSameVersionIdle ==
    [][(/\ IsPreviewStep(lastOp')
        /\ lastOp'.result # "off"
        /\ instance
        /\ mgr.uri = "doc"
        /\ mgr.version = doc.version)
       => (/\ lastOp'.result = "same"
           /\ sm'.log = sm.log
           /\ sm'.state = sm.state
           /\ sm'.adapter = sm.adapter
           /\ sm'.sent = <<>>
           /\ ctl' = ctl
           /\ mgr' = mgr)]_vars

\* C21 witness: the document whose preview failed to compile was previewed
\* again at the same version, and the one RecordErrors action stayed alone
C21_Witness ==
    /\ IsPreviewStep(lastOp)
    /\ lastOp.result = "same"
    /\ doc.source = "E"
    /\ mgr.version = doc.version
    /\ Len(sm.log) = 1
    /\ sm.log[1].type = "RecordErrors"
    /\ sm.state.errors = <<"CompileError">>

\* C22: while live update is disabled, saving the document triggers no
\* recompile: on a save that finds the manager's flag off, and in particular
\* on a save that directly follows a toggleLiveUpdate message with
\* enabled = false, the adapter, the ActionLog and the State are as before,
\* nothing is posted, and the manager keeps the version it last previewed.
C22_SaveWithLiveUpdateOff ==
    [][(/\ lastOp'.op = "save"
        /\ instance
        /\ \/ ~mgr.liveUpdateEnabled
           \/ (lastOp.op = "toggleLiveUpdate" /\ lastOp.result = "off"))
       => (/\ sm'.adapter = sm.adapter
           /\ sm'.log = sm.log
           /\ sm'.state = sm.state
           /\ sm'.sent = <<>>
           /\ mgr' = mgr
           /\ ctl' = ctl)]_vars

\* C22 witness: an edited document was saved with live update off, and the
\* started session of the older version stayed on screen
C22_Witness ==
    /\ lastOp.op = "save"
    /\ lastOp.result = "off"
    /\ ~mgr.liveUpdateEnabled
    /\ mgr.version < doc.version
    /\ HasType(sm.log, "Start")
    /\ sm.state.transcript # <<>>

\* C23: saving the document refreshes the preview only if one is active:
\* a save that finds no PreviewManager instance creates no panel, compiles
\* nothing and dispatches nothing.
C23_SaveWithoutPreviewIdle ==
    [][(lastOp'.op = "save" /\ ~instance)
       => (/\ ~instance'
           /\ sm'.log = sm.log
           /\ sm'.state = sm.state
           /\ sm'.adapter = sm.adapter
           /\ sm'.sent = <<>>
           /\ mgr' = mgr
           /\ ctl' = ctl)]_vars

\* C24: the live-update flag of the session State equals the manager's
\* liveUpdateEnabled flag in every reachable state, also after reset, replay
\* and re-initialization: a preview step that finds the two flags equal
\* leaves them equal.
C24_LiveUpdateFlagsAgree ==
    [][(/\ IsPreviewStep(lastOp')
        /\ instance
        /\ sm.state.liveUpdate = mgr.liveUpdateEnabled)
       => sm'.state.liveUpdate = mgr'.liveUpdateEnabled]_vars

\* C25: at most one PreviewManager exists at a time.  getInstance with an
\* instance in place returns it (its live-update flag, its controller's
\* initialization and its remembered version are those met by the call);
\* dispose leaves no instance and a disposed session; getInstance with no
\* instance creates one with no remembered uri/version (the preview compiles
\* also at a version the disposed manager had previewed), live update
\* enabled, and a new controller and session (the first initializeStory
\* suspends on a new gate).
C25_SingleManager ==
    [][/\ (IsPreviewStep(lastOp') /\ instance)
             => (/\ instance'
                 /\ mgr'.liveUpdateEnabled = mgr.liveUpdateEnabled
                 /\ (ctl.isInitialized => ctl'.isInitialized)
                 /\ (mgr.version = doc.version => (mgr' = mgr /\ sm'.log = sm.log)))
       /\ (lastOp'.op = "dispose") => (instance /\ ~instance' /\ sm'.disposed /\ sm'.log = sm.log)
       /\ (IsPreviewStep(lastOp') /\ ~instance)
             => (/\ instance'
                 /\ lastOp'.result \in {"suspended", "failed"}
                 /\ mgr' = [uri |-> "doc", version |-> doc.version, liveUpdateEnabled |-> TRUE]
                 /\ ~sm'.disposed
                 /\ Len(sm'.log) = (IF lastOp'.result = "failed" THEN 1 ELSE 0)
                 /\ ~readySeen')
       /\ (instance' => ~sm'.disposed)]_vars

\* C25 witness: the panel of a manager that had previewed the document, had
\* started its session and had live update switched off was closed
C25_Witness ==
    /\ lastOp.op = "dispose"
    /\ ~instance
    /\ sm.disposed
    /\ mgr.uri = "doc"
    /\ mgr.version = doc.version
    /\ ~mgr.liveUpdateEnabled
    /\ ctl.isInitialized
    /\ HasType(sm.log, "Start")

\* C26: showCompilationError first resets the session and then records one
\* error: right after the call the ActionLog is exactly one RecordErrors
\* action, State.errors is exactly the one `could not be compiled` error,
\* transcript and choices are empty, the rest of the State is that of the
\* empty State, and the adapter reference is the one held before.
C26_ShowCompilationErrorResets ==
    [][(lastOp'.op = "showCompilationError")
       => (/\ sm'.log = <<AddErrorsAction(<<"CouldNotCompile">>)>>
           /\ sm'.state.errors = <<"CouldNotCompile">>
           /\ sm'.state.transcript = <<>>
           /\ sm'.state.choices = <<>>
           /\ sm'.state = [EmptyState EXCEPT !.errors = <<"CouldNotCompile">>]
           /\ sm'.adapter = sm.adapter)]_vars

\* C26 witness: showCompilationError met a session that had been started and
\* had taken a choice; its adapter still stands past the choice
C26_Witness ==
    /\ lastOp.op = "showCompilationError"
    /\ Len(sm.log) = 1
    /\ sm.state.errors = <<"CouldNotCompile">>
    /\ sm.state.transcript = <<>>
    /\ sm.adapter.pos = "left"

\* The knot and stitch headers among InkLines, read as ink reads them: a knot
\* header opens with two or more "=", its closing "=" and the blank after the
\* opening are optional; a stitch header opens with one "=".
KnotHeaderName(l) ==
    IF l \in {KnotK, KnotTightK} THEN <<"k">>
    ELSE IF l \in {KnotJ, KnotOpenJ} THEN <<"j">>
    ELSE <<>>

StitchHeaderName(l) ==
    IF l \in {StitchS, StitchIndentedS} THEN <<"s">>
    ELSE IF l = StitchK THEN <<"k">>
    ELSE <<>>

\* C27: for every document and every target `name` or `knot.stitch`, the
\* visualizer's _jumpToTarget and the definition provider's findKnotOrStitch
\* resolve to the same line or both report not-found; for a `knot.stitch`
\* target the resolved line is a stitch header of that name that follows a
\* header of that knot with no knot header in between.
C27_TargetSearchesAgree ==
    (lastOp.op \in {"jumpToTarget", "findKnotOrStitch"})
    => LET lines == doc.source
           parts == Split(TargetChars(lastOp.type))
           r == lastOp.index
       IN /\ r = JumpToTarget(lines, lastOp.type)
          /\ r = FindKnotOrStitch(lines, lastOp.type)
          /\ (lastOp.result = "notFound") <=> (r = NotFound)
          /\ (Len(parts) = 2 /\ r # NotFound)
                => (/\ r \in 0..(Len(lines) - 1)
                    /\ StitchHeaderName(lines[r + 1]) = parts[2]
                    /\ \E i \in 0..(r - 1) :
                          /\ KnotHeaderName(lines[i + 1]) = parts[1]
                          /\ \A m \in (i + 1)..(r - 1) : KnotHeaderName(lines[m + 1]) = <<>>)

\* C27 witness: the provider resolved k.s to the stitch inside knot k, past a
\* stitch of the same name that stands before the knot
C27_Witness ==
    /\ lastOp.op = "findKnotOrStitch"
    /\ lastOp.type = "k.s"
    /\ doc.source = <<StitchS, KnotK, StitchIndentedS>>
    /\ lastOp.index = 2
    /\ lastOp.result = "found"

====
